---- MODULE Spec2Model ----
(***************************************************************************)
(* Model of the CompVision motion estimator:                               *)
(*   - FrameProcessorFacade  (src/src/frame_processor.py)                  *)
(*   - CentroidTracker       (src/src/observer.py)                         *)
(*   - MobileRobotEstimatorFacade.run / _log_parameters                    *)
(*                           (src/src/mobile_robot_estimator.py)           *)
(*   - VideoWriterSingleton  (src/src/singleton.py)                        *)
(*                                                                         *)
(* A frame is represented by what the image pipeline (threshold, closing,  *)
(* connected components) hands to the moment computation: the zeroth       *)
(* moment m00, the first moments sumX and sumY, and the raw principal-axis *)
(* angle that the eigen-decomposition yields for it.                       *)
(*                                                                         *)
(* Numbers.  Angles are kept in units of 1/AngleScale degree so that the   *)
(* halving of the stabilizer is exact.  Centroids are drawn from points    *)
(* whose pairwise distances are integers, so the square root is exact.     *)
(* NaN is the float nan that numpy yields for 0/0, None is Python's None.  *)
(***************************************************************************)
EXTENDS Integers, Sequences, FiniteSets

VARIABLES
    observers,        \* FrameProcessorFacade._observers, each with its received centroids
    angles,           \* FrameProcessorFacade.angles
    velocities,       \* FrameProcessorFacade.velocities
    total_distance,   \* MobileRobotEstimatorFacade._total_distance
    frame_count,      \* MobileRobotEstimatorFacade._frame_count
    fps,              \* MobileRobotEstimatorFacade._fps
    sample_interval,  \* MobileRobotEstimatorFacade._sample_interval
    total_frames,     \* number of frames the video capture will deliver
    kind,             \* which family of videos the capture reads from
    pc,               \* position in run()
    written,          \* indices of the frames appended to the video writer
    closeCount,       \* number of calls of VideoWriterSingleton.close
    report,           \* what _log_parameters printed, in hundredths
    published,        \* history: centroids passed to _notify
    updates,          \* history: observer indices in order of update() invocation
    raws,             \* history: raw angles appended to angles
    processed,        \* history: indices of the frames passed to process
    call              \* history: outcome of the last operation on the processor

vars == <<observers, angles, velocities, total_distance, frame_count, fps,
          sample_interval, total_frames, kind, pc, written, closeCount, report,
          published, updates, raws, processed, call>>

-----------------------------------------------------------------------------
(* Bounds of the model *)

MaxFrames == 4
MaxCalls == 3
MaxObservers == 2
UnitFrames == 10
BlobArea == 4

(* Program constant *)
threshold == 120

-----------------------------------------------------------------------------
(* Values *)

NaN == -1
None == -2

AngleScale == 2 ^ (MaxFrames + MaxCalls)
Deg(d) == d * AngleScale

Abs(x) == IF x < 0 THEN -x ELSE x
Last(s) == s[Len(s)]
Sqrt(n) == CHOOSE r \in 0..n : r * r = n

(* numpy true division of two integer scalars: 0/0 is nan (a warning, no exception) *)
Div(a, b) == IF b = 0 THEN NaN ELSE a \div b

(* f"{x:.2f}" of the quotient num/den, as a number of hundredths (round half to even) *)
Fmt2(num, den) ==
    LET q == (100 * num) \div den
        r == (100 * num) % den
    IN  IF 2 * r > den \/ (2 * r = den /\ q % 2 = 1) THEN q + 1 ELSE q

-----------------------------------------------------------------------------
(* Frames delivered by the video capture *)

ObjectFrame(x, y, a) ==
    [m00 |-> BlobArea, sumX |-> BlobArea * x, sumY |-> BlobArea * y, angle |-> a]
EmptyFrame == [m00 |-> 0, sumX |-> 0, sumY |-> 0, angle |-> 0]

Centroids == {<<0, 0>>, <<3, 0>>, <<3, 4>>}
RawAngles == {Deg(10), Deg(12), Deg(170)}
FrameSet == {ObjectFrame(c[1], c[2], a) : c \in Centroids, a \in RawAngles} \cup {EmptyFrame}
FpsSet == {5, 10}
Intervals == {1, 2}
ProcAngles == {Deg(10), Deg(170)}
ProcFrames == {ObjectFrame(c[1], c[2], a) : c \in Centroids, a \in ProcAngles} \cup {EmptyFrame}

-----------------------------------------------------------------------------
(* CentroidTracker and the other subscribers (observer.py) *)

(* CentroidTracker.__init__; `since` remembers how many centroids had been
   published when the subscriber was attached *)
NewObserver(k) == [kind |-> k, log |-> <<>>, since |-> Len(published)]

(* CentroidTracker.update: append the centroid to the history *)
Update(o, c) == [o EXCEPT !.log = Append(@, c)]

(* CentroidTracker.get_history *)
get_history(o) == o.log

-----------------------------------------------------------------------------
(* FrameProcessorFacade (frame_processor.py) *)

(* faulty variant of _notify: only the first observer is updated *)
MutNotifyFirstOnly(st, c, i) ==
    IF Len(st.obs) = 0 THEN st
    ELSE [obs |-> [st.obs EXCEPT ![1] = Update(@, c)], order |-> <<1>>]

(* _notify: for observer in self._observers: observer.update(centroid) *)
RECURSIVE NotifyFrom(_, _, _)
NotifyFrom(st, c, i) ==
    IF i > Len(st.obs) THEN st
    ELSE NotifyFrom([obs   |-> [st.obs EXCEPT ![i] = Update(@, c)],
                     order |-> Append(st.order, i)], c, i + 1)

Notify(obs, c) == NotifyFrom([obs |-> obs, order |-> <<>>], c, 1)

(* uc, vc = sum(X * blobs) / m00, sum(Y * blobs) / m00 *)
Centroid(f) == <<Div(f.sumX, f.m00), Div(f.sumY, f.m00)>>

(* u20, u02, u11 are divided by m00 as well; np.linalg.eig raises LinAlgError
   on a matrix that holds nan *)
EigRaises(f) == Div(f.sumX, f.m00) = NaN

(* faulty variant of the threshold test: the difference is taken without abs *)
MutCorrectsNoAbs(angs, raw) ==
    /\ Len(angs) + 1 > 1
    /\ raw - angs[Len(angs)] > Deg(threshold)

(* faulty variant of the threshold test: the comparison is reversed *)
MutCorrectsBelow(angs, raw) ==
    /\ Len(angs) + 1 > 1
    /\ Abs(raw - angs[Len(angs)]) < Deg(threshold)

(* whether the stabilizer rewrites the entry appended for raw angle `raw` *)
Corrects(angs, raw) ==
    /\ Len(angs) + 1 > 1
    /\ Abs(raw - angs[Len(angs)]) > Deg(threshold)

(* faulty variant of the correction: the entry before the last is rewritten *)
MutStabilizePrev(angs, raw) ==
    LET a == Append(angs, raw)
        n == Len(a)
    IN  IF Corrects(angs, raw)
        THEN [a EXCEPT ![n - 1] = (a[n - 1] + (IF n > 2 THEN a[n - 2] ELSE a[n - 1])) \div 2]
        ELSE a

(* self.angles.append(angle_deg) followed by the threshold correction *)
Stabilize(angs, raw) ==
    LET a == Append(angs, raw)
        n == Len(a)
    IN  IF Corrects(angs, raw)
        THEN [a EXCEPT ![n] = (a[n - 1] + (IF n > 2 THEN a[n - 2] ELSE a[n - 1])) \div 2]
        ELSE a

(* np.sqrt(dx**2 + dy**2) over the last two entries of a history *)
Speed(h) ==
    LET p == h[Len(h)]
        q == h[Len(h) - 1]
    IN  IF NaN \in {p[1], p[2], q[1], q[2]} THEN NaN
        ELSE Sqrt((p[1] - q[1]) ^ 2 + (p[2] - q[2]) ^ 2)

(* instantaneous_speed: only the first observer is consulted, and only when
   it is a CentroidTracker whose history holds more than one entry *)
InstantaneousSpeed(obs) ==
    IF Len(obs) > 0 /\ obs[1].kind = "tracker"
    THEN IF Len(get_history(obs[1])) > 1 THEN Speed(get_history(obs[1])) ELSE None
    ELSE None

(* FrameProcessorFacade.process on frame f: the state it leaves and what it
   returns; raised = TRUE when it is left by the exception of np.linalg.eig *)
process(obs, angs, vels, f) ==
    LET c == Centroid(f)
        n == Notify(obs, c)
    IN  IF EigRaises(f)
        THEN [observers |-> n.obs, order |-> n.order, angles |-> angs,
              velocities |-> vels, speed |-> None, raised |-> TRUE,
              corrected |-> FALSE, centroid |-> c]
        ELSE LET sp == InstantaneousSpeed(n.obs)
             IN  [observers |-> n.obs, order |-> n.order,
                  angles |-> Stabilize(angs, f.angle),
                  velocities |-> IF sp = None THEN vels ELSE Append(vels, sp),
                  speed |-> sp, raised |-> FALSE,
                  corrected |-> Corrects(angs, f.angle), centroid |-> c]

NoCall == [op |-> "none", frame |-> EmptyFrame, speed |-> None,
           raised |-> FALSE, corrected |-> FALSE]
CallOf(f, r) == [op |-> "process", frame |-> f, speed |-> r.speed,
                 raised |-> r.raised, corrected |-> r.corrected]

-----------------------------------------------------------------------------
(* MobileRobotEstimatorFacade (mobile_robot_estimator.py) *)

(* self._tracker is the observer __init__ attaches, the only one *)
tracker_history == get_history(observers[1])

(* (dx**2 + dy**2) ** 0.5 over the last two entries of the tracker's history *)
Displacement(h) ==
    LET dx == h[Len(h)][1] - h[Len(h) - 1][1]
        dy == h[Len(h)][2] - h[Len(h) - 1][2]
    IN  Sqrt(dx ^ 2 + dy ^ 2)

(* the update of _total_distance after process returned `speed` *)
AddDistance(total, speed, h) ==
    IF speed # None
    THEN IF Len(h) > 1 THEN total + Displacement(h) ELSE total
    ELSE total

(* faulty variant of the average speed: distance per frame, fps left out *)
MutAverageSpeedPerFrame(total, count, rate) ==
    IF count > 0 THEN Fmt2(total, count) ELSE 0

(* average_speed = total_distance / total_time if total_time > 0 else 0,
   with total_time = frame_count / fps, printed with two decimals *)
AverageSpeed(total, count, rate) ==
    IF count > 0 THEN Fmt2(total * rate, count) ELSE 0

(* _log_parameters: the three computed lines of the report *)
LogParameters(total, count, rate) ==
    [avg  |-> AverageSpeed(total, count, rate),
     dist |-> Fmt2(total, 1),
     time |-> Fmt2(count, rate)]

NoReport == [avg |-> None, dist |-> None, time |-> None]

(* The frames the capture may deliver next.  "free": any frame of FrameSet.
   "unit": the blob starts at the origin and moves one pixel (right or down)
   from each frame to the next, with a steady orientation. *)
NextFrames ==
    IF kind = "free" THEN FrameSet
    ELSE IF tracker_history = <<>> THEN {ObjectFrame(0, 0, Deg(10))}
    ELSE LET p == Last(tracker_history)
         IN  {ObjectFrame(p[1] + 1, p[2], Deg(10)), ObjectFrame(p[1], p[2] + 1, Deg(10))}

Init ==
    /\ observers = <<[kind |-> "tracker", log |-> <<>>, since |-> 0]>>
    /\ angles = <<>>
    /\ velocities = <<>>
    /\ total_distance = 0
    /\ frame_count = 0
    /\ fps \in FpsSet
    /\ kind \in {"free", "unit"}
    /\ sample_interval \in (IF kind = "unit" THEN {1} ELSE Intervals)
    /\ total_frames \in (IF kind = "unit" THEN 1..UnitFrames ELSE 0..MaxFrames)
    /\ pc = "read"
    /\ written = <<>>
    /\ closeCount = 0
    /\ report = NoReport
    /\ published = <<>>
    /\ updates = <<>>
    /\ raws = <<>>
    /\ processed = <<>>
    /\ call = NoCall

(* ret is False: release the capture and leave the loop *)
ReadEnd ==
    /\ pc = "read"
    /\ frame_count = total_frames
    /\ pc' = "log"
    /\ UNCHANGED <<observers, angles, velocities, total_distance, frame_count, fps,
                   sample_interval, total_frames, kind, written, closeCount, report,
                   published, updates, raws, processed, call>>

(* a frame that is not sampled: only the frame counter moves *)
SkipFrame ==
    /\ pc = "read"
    /\ frame_count < total_frames
    /\ frame_count % sample_interval # 0
    /\ frame_count' = frame_count + 1
    /\ UNCHANGED <<observers, angles, velocities, total_distance, fps,
                   sample_interval, total_frames, kind, pc, written, closeCount, report,
                   published, updates, raws, processed, call>>

(* a sampled frame: process it, add the displacement, write the figure and
   count the frame; an exception of process leaves run at once *)
SampledFrame ==
    /\ pc = "read"
    /\ frame_count < total_frames
    /\ frame_count % sample_interval = 0
    /\ \E f \in NextFrames :
         LET r == process(observers, angles, velocities, f)
         IN  /\ observers' = r.observers
             /\ angles' = r.angles
             /\ velocities' = r.velocities
             /\ published' = Append(published, r.centroid)
             /\ updates' = updates \o r.order
             /\ processed' = Append(processed, frame_count)
             /\ call' = CallOf(f, r)
             /\ IF r.raised
                THEN /\ pc' = "raised"
                     /\ UNCHANGED <<raws, total_distance, written, frame_count>>
                ELSE /\ pc' = "read"
                     /\ raws' = Append(raws, f.angle)
                     /\ total_distance' =
                            AddDistance(total_distance, r.speed, get_history(r.observers[1]))
                     /\ written' = Append(written, frame_count)
                     /\ frame_count' = frame_count + 1
    /\ UNCHANGED <<fps, sample_interval, total_frames, kind, closeCount, report>>

(* self._log_command.execute() *)
Log ==
    /\ pc = "log"
    /\ report' = LogParameters(total_distance, frame_count, fps)
    /\ pc' = "close"
    /\ UNCHANGED <<observers, angles, velocities, total_distance, frame_count, fps,
                   sample_interval, total_frames, kind, written, closeCount,
                   published, updates, raws, processed, call>>

(* self._video_writer.close() *)
Close ==
    /\ pc = "close"
    /\ closeCount' = closeCount + 1
    /\ pc' = "plot"
    /\ UNCHANGED <<observers, angles, velocities, total_distance, frame_count, fps,
                   sample_interval, total_frames, kind, written, report,
                   published, updates, raws, processed, call>>

(* _restore_stdout, _plot_trajectory, _plot_angles; indexing history[:, 0]
   raises IndexError when the history is empty *)
Plot ==
    /\ pc = "plot"
    /\ pc' = IF tracker_history = <<>> THEN "raised" ELSE "done"
    /\ UNCHANGED <<observers, angles, velocities, total_distance, frame_count, fps,
                   sample_interval, total_frames, kind, written, closeCount, report,
                   published, updates, raws, processed, call>>

Next == ReadEnd \/ SkipFrame \/ SampledFrame \/ Log \/ Close \/ Plot

Spec == Init /\ [][Next]_vars

-----------------------------------------------------------------------------
(* The FrameProcessorFacade used on its own: a caller attaches subscribers
   and calls process, and may go on after a call that raised. *)

InitProc ==
    /\ observers = <<>>
    /\ angles = <<>>
    /\ velocities = <<>>
    /\ total_distance = 0
    /\ frame_count = 0
    /\ fps = 10
    /\ kind = "free"
    /\ sample_interval = 1
    /\ total_frames = 0
    /\ pc = "caller"
    /\ written = <<>>
    /\ closeCount = 0
    /\ report = NoReport
    /\ published = <<>>
    /\ updates = <<>>
    /\ raws = <<>>
    /\ processed = <<>>
    /\ call = NoCall

(* attach_observer *)
Attach ==
    /\ pc = "caller"
    /\ Len(observers) < MaxObservers
    /\ \E k \in {"tracker", "other"} :
         observers' = Append(observers, NewObserver(k))
    /\ call' = [NoCall EXCEPT !.op = "attach"]
    /\ UNCHANGED <<angles, velocities, total_distance, frame_count, fps,
                   sample_interval, total_frames, kind, pc, written, closeCount,
                   report, published, updates, raws, processed>>

(* process(frame) *)
Process ==
    /\ pc = "caller"
    /\ Len(processed) < MaxCalls
    /\ \E f \in ProcFrames :
         LET r == process(observers, angles, velocities, f)
         IN  /\ observers' = r.observers
             /\ angles' = r.angles
             /\ velocities' = r.velocities
             /\ published' = Append(published, r.centroid)
             /\ updates' = updates \o r.order
             /\ processed' = Append(processed, Len(processed))
             /\ call' = CallOf(f, r)
             /\ raws' = IF r.raised THEN raws ELSE Append(raws, f.angle)
    /\ UNCHANGED <<total_distance, frame_count, fps, sample_interval, total_frames,
                   kind, pc, written, closeCount, report>>

NextProc == Attach \/ Process

SpecProc == InitProc /\ [][NextProc]_vars

-----------------------------------------------------------------------------
(* Vocabulary of the properties *)

RunLeft == pc \in {"done", "raised"}
ProcessStep == processed' # processed

Ceil(a, b) == (a + b - 1) \div b
SampledIndices == [i \in 1..Ceil(total_frames, sample_interval) |-> (i - 1) * sample_interval]

Euclid(p, q) ==
    IF NaN \in {p[1], p[2], q[1], q[2]} THEN NaN
    ELSE Sqrt((p[1] - q[1]) * (p[1] - q[1]) + (p[2] - q[2]) * (p[2] - q[2]))

(* float addition: nan absorbs *)
Plus(a, b) == IF a = NaN \/ b = NaN THEN NaN ELSE a + b

RECURSIVE PathLength(_)
PathLength(h) ==
    IF Len(h) < 2 THEN 0
    ELSE Plus(PathLength(SubSeq(h, 1, Len(h) - 1)), Euclid(h[Len(h) - 1], h[Len(h)]))

IsPrefix(s, t) == Len(s) <= Len(t) /\ SubSeq(t, 1, Len(s)) = s
Trackers == {i \in DOMAIN observers : observers[i].kind = "tracker"}

-----------------------------------------------------------------------------
(* C1: a processed frame with zero foreground pixels (m00 = 0) publishes no
   centroid, appends no angle, leaves velocities and the total distance
   unchanged, and the run goes on to the next frame. *)
C1_NoObjectSkipped ==
    [][(ProcessStep /\ call'.frame.m00 = 0) =>
          /\ published' = published
          /\ observers' = observers
          /\ angles' = angles
          /\ velocities' = velocities
          /\ total_distance' = total_distance
          /\ pc' = "read"
          /\ frame_count' = frame_count + 1]_vars

(* C2: whenever run has been left, normally or by an exception, the video
   writer's close() has been called exactly once. *)
C2_ClosedOnceWhenLeft == RunLeft => closeCount = 1

(* C3: after a raw angle is appended, the stored latest angle is the raw
   angle if it differs from the preceding stored angle by at most 120, else
   the average of the two preceding stored angles, or the preceding stored
   angle when there is no earlier one; raw inputs 10, 170, 12 are stored as
   10, 10, 12. *)
C3_StoredAngle ==
    /\ [][raws' # raws =>
            LET n == Len(angles)
                r == Last(raws')
                s == angles'[n + 1]
            IN  /\ Len(angles') = n + 1
                /\ IF n = 0 THEN s = r
                   ELSE IF Abs(r - angles[n]) <= Deg(120) THEN s = r
                   ELSE IF n >= 2 THEN 2 * s = angles[n] + angles[n - 1]
                   ELSE s = angles[n]]_vars
    /\ [](raws = <<Deg(10), Deg(170), Deg(12)>> => angles = <<Deg(10), Deg(10), Deg(12)>>)

C3_Witness ==
    /\ raws = <<Deg(10), Deg(12), Deg(170)>>
    /\ angles = <<Deg(10), Deg(12), Deg(11)>>

(* C4: when run is left, the frame counter equals total_frames and the frames
   processed and written are exactly the indices k with k mod N = 0, in
   source order (ceil(total_frames / N) of them). *)
C4_SampledExactly ==
    RunLeft => /\ frame_count = total_frames
               /\ processed = SampledIndices
               /\ written = SampledIndices

(* the same for the runs that reach their end without an exception of
   process: it holds, so C4 fails only where process raises *)
SampledExactlyWhenCompleted ==
    (RunLeft /\ ~call.raised) => /\ frame_count = total_frames
                                 /\ processed = SampledIndices
                                 /\ written = SampledIndices

(* C5: after every processed frame the running total distance is the sum of
   the Euclidean distances between consecutive entries of the tracker's
   history (0 with fewer than two entries). *)
C5_TotalIsPathLength == total_distance = PathLength(tracker_history)

(* the same while no process call has raised: it holds, so C5 fails only
   where process raises after publishing the nan centroid *)
TotalIsPathLengthWhenNoRaise ==
    ~call.raised => total_distance = PathLength(tracker_history)

(* C6 as stated: a 10-frame video whose centroid moves one pixel per frame,
   sampling interval 1, fps 10, is reported with average speed 10.00, total
   distance 9.00 and total time 1.00. *)
C6_ReportTenPerSecond ==
    (kind = "unit" /\ total_frames = 10 /\ fps = 10 /\ sample_interval = 1
        /\ report # NoReport)
    => report = [avg |-> 1000, dist |-> 900, time |-> 100]

(* C6 amended: the same run is reported with average speed 9.00 (total
   distance 9.00 over total time 1.00). *)
C6_ReportNinePerSecond ==
    (kind = "unit" /\ total_frames = 10 /\ fps = 10 /\ sample_interval = 1
        /\ report # NoReport)
    => report = [avg |-> 900, dist |-> 900, time |-> 100]

C6_Witness ==
    /\ kind = "unit" /\ total_frames = 10 /\ fps = 10 /\ sample_interval = 1
    /\ pc = "done"
    /\ Len(tracker_history) = 10
    /\ report # NoReport

(* C7: with a CentroidTracker among the attached subscribers, wherever it
   stands in the list, a process call that returns (every frame so far
   holding an object) reports the distance
   between the last two entries of that tracker's history and appends it to
   velocities when the history has at least two entries, and reports None
   otherwise. *)
C7_SpeedFromAnyTracker ==
    (/\ call.op = "process" /\ ~call.raised
     /\ Cardinality(Trackers) = 1
     /\ \A k \in DOMAIN published : published[k][1] # NaN) =>
        \A i \in Trackers :
            LET h == get_history(observers[i])
            IN  IF Len(h) >= 2
                THEN /\ call.speed = Euclid(h[Len(h) - 1], h[Len(h)])
                     /\ velocities # <<>>
                     /\ Last(velocities) = call.speed
                ELSE call.speed = None

(* C8: every attached subscriber receives update exactly once per processed
   frame, subscribers are called in attachment order, each history is the
   sequence of centroids published since the subscriber was attached, and a
   history only grows, one entry per update. *)
C8_Delivery ==
    /\ [](/\ Len(published) = Len(processed)
          /\ \A i \in DOMAIN observers :
                observers[i].log =
                    SubSeq(published, observers[i].since + 1, Len(published)))
    /\ [][ProcessStep =>
            /\ updates' = updates \o [i \in 1..Len(observers) |-> i]
            /\ \A i \in DOMAIN observers :
                  observers'[i].log = Append(observers[i].log, Last(published'))]_vars
    /\ [][\A i \in DOMAIN observers :
            /\ IsPrefix(observers[i].log, observers'[i].log)
            /\ Len(observers'[i].log) <= Len(observers[i].log) + 1]_vars

C8_Witness ==
    /\ Len(observers) = 2
    /\ observers[1].kind = "other"
    /\ observers[2].kind = "tracker"
    /\ get_history(observers[2]) = <<<<0, 0>>, <<3, 4>>, <<3, 0>>>>
    /\ observers[1].log = get_history(observers[2])

(* C9 as stated: when the last two processed frames have the same raw angle,
   the stored angle of the second is its raw angle, whatever precedes. *)
C9_IdenticalNeverCorrected ==
    LET n == Len(raws)
    IN  (n >= 2 /\ raws[n] = raws[n - 1]) => angles[n] = raws[n]

(* C9 amended: when the last two processed frames have the same raw angle
   and the first of them was stored uncorrected, the stored angle of the
   second is its raw angle. *)
C9_IdenticalAfterUncorrected ==
    LET n == Len(raws)
    IN  (n >= 2 /\ raws[n] = raws[n - 1] /\ angles[n - 1] = raws[n - 1])
            => angles[n] = raws[n]

C9_Witness ==
    /\ raws = <<Deg(10), Deg(170), Deg(10), Deg(10)>>
    /\ angles = <<Deg(10), Deg(10), Deg(10), Deg(10)>>

(* C10: a process call on a frame with an object lengthens the angle
   sequence by exactly one entry and leaves every earlier entry unchanged;
   the new final entry is the raw angle unless the stabilizer rewrote it, and
   nothing else changes the sequence. *)
C10_AppendOnly ==
    /\ [][(ProcessStep /\ call'.frame.m00 > 0) =>
            /\ Len(angles') = Len(angles) + 1
            /\ SubSeq(angles', 1, Len(angles)) = angles
            /\ (~call'.corrected => Last(angles') = call'.frame.angle)]_vars
    /\ [][(~ProcessStep \/ call'.frame.m00 = 0) => angles' = angles]_vars

C10_Witness ==
    /\ call.op = "process"
    /\ call.corrected
    /\ Len(angles) = 3
    /\ angles[3] # raws[3]
    /\ angles[2] = raws[2]

====
